---- MODULE Spec2Model ----
(***************************************************************************)
(* GPIBCommunicator (instruments/abstract_instruments/comm/                *)
(* gpib_communicator.py): the session that wraps a byte channel with the   *)
(* command syntax of a Galvant Industries (gi) or Prologix (pl) GPIB       *)
(* adapter.                                                                *)
(*                                                                         *)
(* Python values are tagged records [t |-> type, v |-> value]; a str or a  *)
(* bytes value is the sequence of its character codes, so that ord, chr,   *)
(* len and lower are computed and not assumed.  Every operation is one     *)
(* action (the class is synchronous and single-threaded); its body is a    *)
(* function from the session record to the session record, in which a      *)
(* raised exception is the field err and stops every later statement.      *)
(***************************************************************************)
EXTENDS Integers, Sequences, FiniteSets

VARIABLES
    _model,              \* self._model: "gi" or "pl"
    _version,            \* self._version (gi only; NoVersion on pl)
    _gpib_address,       \* self._gpib_address
    _timeout,            \* self._timeout, in milliseconds
    _terminator,         \* self._terminator
    _eoi,                \* self._eoi
    _eos,                \* self._eos
    _sleeptime,          \* self._sleeptime, in hundredths of a second
    _network_terminator, \* self._network_terminator
    file_terminator,     \* self._file.terminator
    file_timeout,        \* self._file.timeout, in milliseconds
    file_address,        \* self._file.address
    io,                  \* what the latest call did on the channel, in order
    adapter,             \* what the adapter was last told over the channel
    last                 \* the latest call: operation, argument, size, outcome

vars == <<_model, _version, _gpib_address, _timeout, _terminator, _eoi, _eos,
          _sleeptime, _network_terminator, file_terminator, file_timeout,
          file_address, io, adapter, last>>

(***************************************************************************)
(* Python values.                                                          *)
(***************************************************************************)
PyStr(s) == [t |-> "str", v |-> s]
PyBytes(s) == [t |-> "bytes", v |-> s]
PyInt(n) == [t |-> "int", v |-> n]
PyBool(b) == [t |-> "bool", v |-> b]
PyList(s) == [t |-> "list", v |-> s]
Quantity(ms) == [t |-> "quantity", v |-> ms]     \* a pint quantity, in milliseconds
PyFloat(c) == [t |-> "float", v |-> c]         \* a float, in hundredths
PyNone == [t |-> "none", v |-> 0]

\* character codes of the strings the source names
LF == <<10>>
CR == <<13>>
CRLF == <<13, 10>>
EOI == <<101, 111, 105>>

\* str.lower() on ASCII codes
Lower(s) == [i \in 1..Len(s) |-> IF s[i] >= 65 /\ s[i] <= 90 THEN s[i] + 32 ELSE s[i]]

\* isinstance(x, int): bool is a subclass of int
IsInt(x) == x.t \in {"int", "bool"}
IntVal(x) == IF x.t = "bool" THEN (IF x.v THEN 1 ELSE 0) ELSE x.v

\* int(): truncation toward zero
Trunc(n, d) == IF n >= 0 THEN n \div d ELSE -((-n) \div d)

\* str(n) of a non-negative integer: its decimal digits
RECURSIVE Digits(_)
Digits(n) == IF n < 10 THEN <<48 + n>> ELSE Append(Digits(n \div 10), 48 + (n % 10))

\* str(x), as f"{x}", "%i" % x and str(x) format a value
Format(x) ==
    CASE x.t = "int" -> IF x.v < 0 THEN <<45>> \o Digits(-x.v) ELSE Digits(x.v)
      [] x.t = "bool" -> IF x.v THEN <<84, 114, 117, 101>> ELSE <<70, 97, 108, 115, 101>>
      [] x.t = "none" -> <<78, 111, 110, 101>>
      [] OTHER -> x.v

OK == "ok"
Raise(s, e) == IF s.err # OK THEN s ELSE [s EXCEPT !.err = e]

(***************************************************************************)
(* The underlying channel (self._file).  A write that fails raises and     *)
(* writes nothing: s.budget is the number of writes the channel still      *)
(* takes before one fails (negative: none fails).                          *)
(***************************************************************************)
\* one step on the channel: a write of the text cmd followed by arg, a read
\* (arg: the size asked for), or the entry of a method of the session; term
\* is the channel's terminator at that moment
Event(s, k, c, a) == [k |-> k, cmd |-> c, arg |-> a, term |-> s.file_terminator]

\* the adapter at the other end of the channel: the values carried by the
\* latest EOI, EOS and timeout commands that reached it (<<>>: none yet), as
\* long as no write to it has failed; after a failed write what it holds is
\* not known any more
NotTold == [eoi |-> <<>>, eos |-> <<>>, timeout |-> <<>>, intact |-> TRUE]
Lost == [eoi |-> <<>>, eos |-> <<>>, timeout |-> <<>>, intact |-> FALSE]
Tell(ad, c, a) ==
    IF ~ad.intact THEN ad
    ELSE IF c \in {"+eoi:", "++eoi "} THEN [ad EXCEPT !.eoi = a]
    ELSE IF c \in {"+eos:", "++eos "} THEN [ad EXCEPT !.eos = a]
    ELSE IF c \in {"+t:", "++read_tmo_ms "} THEN [ad EXCEPT !.timeout = a]
    ELSE ad

\* self._file.sendcmd(c + a): c is the literal part of the command, a the
\* formatted value that follows it
FileSendcmd(s, c, a) ==
    IF s.err # OK THEN s
    ELSE IF s.budget = 0 THEN [s EXCEPT !.err = "IOError", !.adapter = Lost]
    ELSE [s EXCEPT !.io = Append(@, Event(s, "write", c, a)), !.budget = @ - 1,
                   !.adapter = Tell(@, c, a)]

\* self._file.read(size, encoding) / self._file.read_raw(size)
FileRead(s, c, size, fails) ==
    IF s.err # OK THEN s
    ELSE IF fails THEN [s EXCEPT !.err = "IOError"]
    ELSE [s EXCEPT !.io = Append(@, Event(s, "read", c, Format(PyInt(size))))]

\* entry of a method of the session, recorded in the order of the calls
Enter(s, c, a) ==
    IF s.err # OK THEN s ELSE [s EXCEPT !.io = Append(@, Event(s, "call", c, a))]

(***************************************************************************)
(* Properties of the session.                                              *)
(***************************************************************************)
MinAddress == 1
MaxAddress == 30
MinSleep == 0
MaxSleep == 1000     \* 10 seconds, in hundredths
LegacyVersion == 4
MaxByte == 255
MaxCodePoint == 1114111

\* self._model == GPIBCommunicator.Model.gi and self._version <= 4
Legacy(s) == s.model = "gi" /\ s.version <= LegacyVersion

\* assume_units(newval, u.second), in milliseconds
AssumeUnits(newval) == IF newval.t = "quantity" THEN newval.v ELSE IntVal(newval) * 1000

\* assume_units(newval, u.second).magnitude, in hundredths: the magnitude of
\* a quantity is the number in its own unit
Magnitude(newval) ==
    CASE newval.t = "float" -> newval.v
      [] newval.t = "quantity" -> newval.v * 100
      [] OTHER -> IntVal(newval) * 100

\* sleeptime.setter
sleeptime_set(s, newval) ==
    IF s.err # OK THEN s
    ELSE IF Magnitude(newval) >= MinSleep /\ Magnitude(newval) <= MaxSleep
         THEN [s EXCEPT !.sleeptime = Magnitude(newval)]
         ELSE Raise(s, "ValueError")

\* address.setter with the assignment moved before the range check
RECURSIVE address_set_assigns_first(_, _)
address_set_assigns_first(s, newval) ==
    IF s.err # OK THEN s
    ELSE IF IsInt(newval)
         THEN IF IntVal(newval) < MinAddress \/ IntVal(newval) > MaxAddress
              THEN Raise([s EXCEPT !.gpib_address = newval], "ValueError")
              ELSE [s EXCEPT !.gpib_address = newval]
    ELSE IF newval.t = "list"
         THEN IF Len(newval.v) < 1 THEN Raise(s, "IndexError")
              ELSE LET s1 == address_set_assigns_first(s, newval.v[1])
                   IN  IF s1.err # OK THEN s1
                       ELSE IF Len(newval.v) < 2 THEN Raise(s1, "IndexError")
                       ELSE [s1 EXCEPT !.file_address = newval.v[2]]
    ELSE Raise(s, "TypeError")

\* address.setter; the list form assigns the first element through the
\* setter itself and then the second to the channel
RECURSIVE address_set(_, _)
address_set(s, newval) ==
    IF s.err # OK THEN s
    ELSE IF IsInt(newval)
         THEN IF IntVal(newval) < MinAddress \/ IntVal(newval) > MaxAddress
              THEN Raise(s, "ValueError")
              ELSE [s EXCEPT !.gpib_address = newval]
    ELSE IF newval.t = "list"
         THEN IF Len(newval.v) < 1 THEN Raise(s, "IndexError")
              ELSE LET s1 == address_set(s, newval.v[1])
                   IN  IF s1.err # OK THEN s1
                       ELSE IF Len(newval.v) < 2 THEN Raise(s1, "IndexError")
                       ELSE [s1 EXCEPT !.file_address = newval.v[2]]
    ELSE Raise(s, "TypeError")

\* timeout.setter that caches the new value before it sends the command
timeout_set_caches_first(s, newval) ==
    IF s.err # OK THEN s
    ELSE LET ms == AssumeUnits(newval)
             s0 == [s EXCEPT !.timeout = ms]
             s1 == IF Legacy(s)
                   THEN FileSendcmd(s0, "+t:", Format(PyInt(Trunc(ms, 1000))))
                   ELSE FileSendcmd(s0, "++read_tmo_ms ", Format(PyInt(ms)))
         IN  IF s1.err # OK THEN s1
             ELSE [s1 EXCEPT !.file_timeout = ms]

\* timeout.setter that sends milliseconds to every adapter
timeout_set_always_ms(s, newval) ==
    IF s.err # OK THEN s
    ELSE LET ms == AssumeUnits(newval)
             s1 == IF Legacy(s)
                   THEN FileSendcmd(s, "+t:", Format(PyInt(ms)))
                   ELSE FileSendcmd(s, "++read_tmo_ms ", Format(PyInt(ms)))
         IN  IF s1.err # OK THEN s1
             ELSE [s1 EXCEPT !.file_timeout = ms, !.timeout = ms]

\* timeout.setter
timeout_set(s, newval) ==
    IF s.err # OK THEN s
    ELSE LET ms == AssumeUnits(newval)
             s1 == IF Legacy(s)
                   THEN FileSendcmd(s, "+t:", Format(PyInt(Trunc(ms, 1000))))
                   ELSE FileSendcmd(s, "++read_tmo_ms ", Format(PyInt(ms)))
         IN  IF s1.err # OK THEN s1
             ELSE [s1 EXCEPT !.file_timeout = ms, !.timeout = ms]

\* eoi.setter that caches the flag and sends nothing
eoi_set_silent(s, newval) ==
    IF s.err # OK THEN s
    ELSE IF newval.t # "bool" THEN Raise(s, "TypeError")
    ELSE [s EXCEPT !.eoi = newval.v]

\* eoi.setter
eoi_set(s, newval) ==
    IF s.err # OK THEN s
    ELSE IF newval.t # "bool" THEN Raise(s, "TypeError")
    ELSE LET s1 == [s EXCEPT !.eoi = newval.v]
             bit == IF newval.v THEN <<49>> ELSE <<48>>
         IN  IF Legacy(s) THEN FileSendcmd(s1, "+eoi:", bit)
                          ELSE FileSendcmd(s1, "++eoi ", bit)

\* ord(c): a str or bytes of length one
OrdOk(x) == x.t \in {"str", "bytes"} /\ Len(x.v) = 1
Ord(x) == x.v[1]

\* eos.setter with the codes of CR and LF exchanged
eos_set_swapped_codes(s, newval) ==
    IF s.err # OK THEN s
    ELSE IF Legacy(s)
         THEN IF newval.t \in {"str", "bytes"} /\ ~OrdOk(newval)
              THEN Raise(s, "TypeError")
              ELSE LET n == IF newval.t \in {"str", "bytes"} THEN PyInt(Ord(newval)) ELSE newval
                       s1 == FileSendcmd(s, "+eos:", Format(n))
                   IN  IF s1.err # OK THEN s1 ELSE [s1 EXCEPT !.eos = n]
    ELSE IF IsInt(newval) /\ (IntVal(newval) < 0 \/ IntVal(newval) > MaxCodePoint)
         THEN Raise(s, "ValueError")
    ELSE LET c == IF IsInt(newval) THEN PyStr(<<IntVal(newval)>>) ELSE newval
         IN  IF c = PyStr(CRLF) THEN FileSendcmd([s EXCEPT !.eos = c], "++eos ", Format(PyInt(0)))
             ELSE IF c = PyStr(CR) THEN FileSendcmd([s EXCEPT !.eos = c], "++eos ", Format(PyInt(2)))
             ELSE IF c = PyStr(LF) THEN FileSendcmd([s EXCEPT !.eos = c], "++eos ", Format(PyInt(1)))
             ELSE IF c = PyNone THEN FileSendcmd([s EXCEPT !.eos = c], "++eos ", Format(PyInt(3)))
             ELSE Raise(s, "ValueError")

\* eos.setter
eos_set(s, newval) ==
    IF s.err # OK THEN s
    ELSE IF Legacy(s)
         THEN IF newval.t \in {"str", "bytes"} /\ ~OrdOk(newval)
              THEN Raise(s, "TypeError")
              ELSE LET n == IF newval.t \in {"str", "bytes"} THEN PyInt(Ord(newval)) ELSE newval
                       s1 == FileSendcmd(s, "+eos:", Format(n))
                   IN  IF s1.err # OK THEN s1 ELSE [s1 EXCEPT !.eos = n]
    ELSE IF IsInt(newval) /\ (IntVal(newval) < 0 \/ IntVal(newval) > MaxCodePoint)
         THEN Raise(s, "ValueError")
    ELSE LET c == IF IsInt(newval) THEN PyStr(<<IntVal(newval)>>) ELSE newval
         IN  IF c = PyStr(CRLF) THEN FileSendcmd([s EXCEPT !.eos = c], "++eos ", Format(PyInt(0)))
             ELSE IF c = PyStr(CR) THEN FileSendcmd([s EXCEPT !.eos = c], "++eos ", Format(PyInt(1)))
             ELSE IF c = PyStr(LF) THEN FileSendcmd([s EXCEPT !.eos = c], "++eos ", Format(PyInt(2)))
             ELSE IF c = PyNone THEN FileSendcmd([s EXCEPT !.eos = c], "++eos ", Format(PyInt(3)))
             ELSE Raise(s, "ValueError")

\* terminator (getter)
terminator(s) == IF ~s.eoi THEN s.terminator ELSE PyStr(EOI)

\* terminator.setter that, on a modern adapter, leaves the eoi flag as it was
\* when a character is set
terminator_set_keeps_eoi(s, newval0) ==
    IF s.err # OK THEN s
    ELSE
    LET decoded == IF newval0.t = "bytes" THEN PyStr(newval0.v) ELSE newval0
        newval == IF decoded.t = "str" THEN PyStr(Lower(decoded.v)) ELSE decoded
    IN  IF Legacy(s)
        THEN IF newval = PyStr(EOI) THEN eoi_set(s, PyBool(TRUE))
             ELSE IF ~IsInt(newval)
                  THEN IF newval.t = "str" /\ Len(newval.v) = 1
                       THEN eos_set(eoi_set(s, PyBool(FALSE)), PyInt(Ord(newval)))
                       ELSE Raise(s, "TypeError")
             ELSE IF IntVal(newval) < 0 \/ IntVal(newval) > MaxByte
                  THEN Raise(s, "ValueError")
             ELSE LET s1 == eos_set(eoi_set(s, PyBool(FALSE)), newval)
                  IN  IF s1.err # OK THEN s1
                      ELSE [s1 EXCEPT !.terminator = PyStr(<<IntVal(newval)>>)]
        ELSE IF newval # PyStr(EOI)
             THEN LET s1 == eos_set(s, newval)
                  IN  IF s1.err # OK THEN s1 ELSE [s1 EXCEPT !.terminator = s1.eos]
             ELSE LET s1 == eos_set(s, PyNone)
                      s2 == IF s1.err # OK THEN s1 ELSE [s1 EXCEPT !.terminator = PyStr(EOI)]
                  IN  eoi_set(s2, PyBool(TRUE))

\* terminator.setter
terminator_set(s, newval0) ==
    IF s.err # OK THEN s
    ELSE
    LET decoded == IF newval0.t = "bytes" THEN PyStr(newval0.v) ELSE newval0
        newval == IF decoded.t = "str" THEN PyStr(Lower(decoded.v)) ELSE decoded
    IN  IF Legacy(s)
        THEN IF newval = PyStr(EOI) THEN eoi_set(s, PyBool(TRUE))
             ELSE IF ~IsInt(newval)
                  THEN IF newval.t = "str" /\ Len(newval.v) = 1
                       THEN eos_set(eoi_set(s, PyBool(FALSE)), PyInt(Ord(newval)))
                       ELSE Raise(s, "TypeError")
             ELSE IF IntVal(newval) < 0 \/ IntVal(newval) > MaxByte
                  THEN Raise(s, "ValueError")
             ELSE LET s1 == eos_set(eoi_set(s, PyBool(FALSE)), newval)
                  IN  IF s1.err # OK THEN s1
                      ELSE [s1 EXCEPT !.terminator = PyStr(<<IntVal(newval)>>)]
        ELSE IF newval # PyStr(EOI)
             THEN LET s1 == eoi_set(eos_set(s, newval), PyBool(FALSE))
                  IN  IF s1.err # OK THEN s1 ELSE [s1 EXCEPT !.terminator = s1.eos]
             ELSE LET s1 == eos_set(s, PyNone)
                      s2 == IF s1.err # OK THEN s1 ELSE [s1 EXCEPT !.terminator = PyStr(EOI)]
                  IN  eoi_set(s2, PyBool(TRUE))

(***************************************************************************)
(* Reading and writing through the adapter.                                *)
(***************************************************************************)
\* _sendcmd that does not send the EOS command again
_sendcmd_without_eos(s, c, a) ==
    IF s.err # OK THEN s
    ELSE IF c = "" /\ a = <<>> THEN s
    ELSE LET s1 == IF s.model = "gi"
                   THEN FileSendcmd(s, "+a:", Format(s.gpib_address))
                   ELSE FileSendcmd(s, "++addr ", Format(s.gpib_address))
             s2 == eoi_set(s1, PyBool(s1.eoi))
             s3 == timeout_set(s2, Quantity(s2.timeout))
         IN  FileSendcmd(s3, c, a)

\* _sendcmd that chooses the addressing command by firmware version, as the
\* setters choose theirs
_sendcmd_addr_by_version(s, c, a) ==
    IF s.err # OK THEN s
    ELSE IF c = "" /\ a = <<>> THEN s
    ELSE LET s1 == IF Legacy(s)
                   THEN FileSendcmd(s, "+a:", Format(s.gpib_address))
                   ELSE FileSendcmd(s, "++addr ", Format(s.gpib_address))
             s2 == eoi_set(s1, PyBool(s1.eoi))
             s3 == timeout_set(s2, Quantity(s2.timeout))
             s4 == eos_set(s3, s3.eos)
         IN  FileSendcmd(s4, c, a)

\* _sendcmd(msg), with msg the text c + a; self.sendcmd(msg) is the logging
\* wrapper of AbstractCommunicator around it
_sendcmd(s, c, a) ==
    IF s.err # OK THEN s
    ELSE IF c = "" /\ a = <<>> THEN s
    ELSE LET s1 == IF s.model = "gi"
                   THEN FileSendcmd(s, "+a:", Format(s.gpib_address))
                   ELSE FileSendcmd(s, "++addr ", Format(s.gpib_address))
             s2 == eoi_set(s1, PyBool(s1.eoi))
             s3 == timeout_set(s2, Quantity(s2.timeout))
             s4 == eos_set(s3, s3.eos)
         IN  FileSendcmd(s4, c, a)

\* _initread that asks for a plain read when the terminator is a character
_initread_plain_read(s, size) ==
    IF s.err # OK THEN s
    ELSE
    LET s0 == Enter(s, "_initread", Format(PyInt(size)))
    IN  IF s0.model = "gi" THEN Raise(s0, "NameError")
        ELSE IF size = -1
             THEN IF terminator(s0) = PyStr(EOI)
                  THEN IF ~OrdOk(s0.file_terminator) THEN Raise(s0, "TypeError")
                       ELSE LET s1 == FileSendcmd(s0, "++eot_char ",
                                                  Format(PyInt(Ord(s0.file_terminator))))
                                s2 == FileSendcmd(s1, "++eot_enable 1", <<>>)
                            IN  _sendcmd(s2, "++read eoi", <<>>)
                  ELSE LET s1 == [s0 EXCEPT !.file_terminator = terminator(s0)]
                           s2 == FileSendcmd(s1, "++eot_enable 0", <<>>)
                       IN  _sendcmd(s2, "++read", <<>>)
             ELSE _sendcmd(s0, "++read", <<>>)

\* _initread(size).  On a gi session the first condition evaluates the name
\* msg, which is bound neither in the method nor in the module: NameError.
_initread(s, size) ==
    IF s.err # OK THEN s
    ELSE
    LET s0 == Enter(s, "_initread", Format(PyInt(size)))
    IN  IF s0.model = "gi" THEN Raise(s0, "NameError")
        ELSE IF size = -1
             THEN IF terminator(s0) = PyStr(EOI)
                  THEN IF ~OrdOk(s0.file_terminator) THEN Raise(s0, "TypeError")
                       ELSE LET s1 == FileSendcmd(s0, "++eot_char ",
                                                  Format(PyInt(Ord(s0.file_terminator))))
                                s2 == FileSendcmd(s1, "++eot_enable 1", <<>>)
                            IN  _sendcmd(s2, "++read eoi", <<>>)
                  ELSE LET s1 == [s0 EXCEPT !.file_terminator = terminator(s0)]
                           s2 == FileSendcmd(s1, "++eot_enable 0", <<>>)
                       IN  IF s2.err # OK THEN s2
                           ELSE IF ~OrdOk(terminator(s2)) THEN Raise(s2, "TypeError")
                           ELSE _sendcmd(s2, "++read ", Format(PyInt(Ord(terminator(s2)))))
             ELSE _sendcmd(s0, "++read", <<>>)

\* _endread()
_endread(s) ==
    IF s.err # OK THEN s
    ELSE
    LET s0 == Enter(s, "_endread", <<>>)
    IN  IF s0.model = "pl" /\ terminator(s0) # PyStr(EOI)
        THEN [s0 EXCEPT !.file_terminator = s0.network_terminator]
        ELSE s0

\* read(size, encoding); fails: the channel's read raises
read(s, size, fails) == _endread(FileRead(_initread(s, size), "read", size, fails))

\* read_raw(size)
read_raw(s, size, fails) == _endread(FileRead(_initread(s, size), "read_raw", size, fails))

\* write(msg, encoding) and write_raw(msg): the payload goes to the channel as it is
write(s, a) ==
    IF s.err # OK THEN s
    ELSE IF s.budget = 0 THEN [s EXCEPT !.err = "IOError", !.adapter = Lost]
    ELSE [s EXCEPT !.io = Append(@, Event(s, "payload", "", a)), !.budget = @ - 1]

\* _query(msg, size); self.query(msg, size) is the logging wrapper around it
_query(s, c, a, size, fails) == read(_initread(_sendcmd(s, c, a), size), size, fails)

(***************************************************************************)
(* Construction.                                                           *)
(***************************************************************************)
DefaultTimeout == 1000

\* __init__ that configures the terminator before it sets the pl adapter's mode
__init__mode_late(gpib_address, model, ver) ==
    LET s0 == [model |-> model, version |-> 0,
               gpib_address |-> gpib_address,
               timeout |-> 0, terminator |-> PyNone, eoi |-> FALSE,
               eos |-> PyNone, sleeptime |-> 0,
               network_terminator |-> PyStr(CR),
               file_terminator |-> PyStr(CR), file_timeout |-> 0,
               file_address |-> PyNone, adapter |-> NotTold,
               io |-> <<>>, err |-> OK, budget |-> -1]
        s1 == IF model = "gi"
              THEN [FileRead(FileSendcmd(s0, "+ver", <<>>), "read", -1, FALSE)
                       EXCEPT !.version = ver]
              ELSE s0
        s2 == terminator_set([s1 EXCEPT !.terminator = PyNone], PyStr(LF))
        s3 == IF model = "pl"
              THEN FileSendcmd(FileSendcmd(s2, "++mode 1", <<>>), "++auto 0", <<>>)
              ELSE s2
        s4 == [s3 EXCEPT !.eoi = TRUE, !.timeout = DefaultTimeout,
                         !.eos = IF Legacy(s3) THEN PyInt(10) ELSE PyStr(LF)]
    IN  sleeptime_set(s4, PyFloat(1))

\* __init__(filelike, gpib_address, model); ver is the channel's answer to
\* "+ver".  Fields not yet assigned hold a placeholder no statement reads.
__init__(gpib_address, model, ver) ==
    LET s0 == [model |-> model, version |-> 0,
               gpib_address |-> gpib_address,
               timeout |-> 0, terminator |-> PyNone, eoi |-> FALSE,
               eos |-> PyNone, sleeptime |-> 0,
               network_terminator |-> PyStr(CR),
               file_terminator |-> PyStr(CR), file_timeout |-> 0,
               file_address |-> PyNone, adapter |-> NotTold,
               io |-> <<>>, err |-> OK, budget |-> -1]
        s1 == IF model = "gi"
              THEN [FileRead(FileSendcmd(s0, "+ver", <<>>), "read", -1, FALSE)
                       EXCEPT !.version = ver]
              ELSE s0
        s2 == IF model = "pl"
              THEN FileSendcmd(FileSendcmd(s1, "++mode 1", <<>>), "++auto 0", <<>>)
              ELSE s1
        s3 == terminator_set([s2 EXCEPT !.terminator = PyNone], PyStr(LF))
        s4 == [s3 EXCEPT !.eoi = TRUE, !.timeout = DefaultTimeout,
                         !.eos = IF Legacy(s3) THEN PyInt(10) ELSE PyStr(LF)]
    IN  sleeptime_set(s4, PyFloat(1))

(***************************************************************************)
(* The state machine: Init is a constructed session, every action is one   *)
(* call of a public operation, run to its return or to its exception.      *)
(***************************************************************************)
MaxFail == 1     \* a channel write may fail at the 1st .. MaxFail-th write of a call
MaxSize == 0     \* sizes asked of a read: -1 (until the terminator) and 0 .. MaxSize

Models == {"gi", "pl"}
Versions == {LegacyVersion, LegacyVersion + 1}
InitAddresses == {0, 30}
Sizes == {-1} \cup (0 .. MaxSize)
Fails == 0 .. MaxFail
\* the faults of a call that reads: (f, rf) with f the failing write and rf
\* whether the channel's read raises
ReadFaults == {<<f, rf>> \in Fails \X BOOLEAN : rf => f = 0}
Downstream == PyStr(<<100>>)
Texts == {<<>>, <<42, 82, 83, 84>>, <<42, 73, 68, 78, 63>>}     \* "", "*RST", "*IDN?"

AddressInputs ==
    {PyInt(0), PyInt(30), PyInt(31), PyStr(<<53>>),
     PyList(<<PyInt(30), Downstream>>), PyList(<<PyInt(31), Downstream>>),
     PyList(<<PyStr(<<53>>), Downstream>>)}
TimeoutInputs == {Quantity(2500), PyInt(1)}
EoiInputs == {PyBool(TRUE), PyBool(FALSE), PyInt(1)}
EosInputs ==
    {PyStr(LF), PyStr(CR), PyStr(CRLF), PyNone, PyInt(256), PyStr(<<59>>)}
TerminatorInputs ==
    {PyStr(EOI), PyStr(<<69, 79, 73>>), PyStr(LF), PyBytes(LF), PyStr(CRLF),
     PyInt(10), PyInt(256), PyStr(<<59>>)}
SleeptimeInputs == {PyFloat(1), PyFloat(-1), PyFloat(1001)}     \* 0.01, -0.01, 10.01

\* the session as a record, at the start of a call whose failAt-th channel
\* write fails (0: none does)
Self(failAt) ==
    [model |-> _model, version |-> _version, gpib_address |-> _gpib_address,
     timeout |-> _timeout, terminator |-> _terminator, eoi |-> _eoi,
     eos |-> _eos, sleeptime |-> _sleeptime,
     network_terminator |-> _network_terminator,
     file_terminator |-> file_terminator, file_timeout |-> file_timeout,
     file_address |-> file_address, adapter |-> adapter,
     io |-> <<>>, err |-> OK, budget |-> failAt - 1]

\* the session after the call
Becomes(s) ==
    /\ _model' = s.model
    /\ _version' = s.version
    /\ _gpib_address' = s.gpib_address
    /\ _timeout' = s.timeout
    /\ _terminator' = s.terminator
    /\ _eoi' = s.eoi
    /\ _eos' = s.eos
    /\ _sleeptime' = s.sleeptime
    /\ _network_terminator' = s.network_terminator
    /\ file_terminator' = s.file_terminator
    /\ file_timeout' = s.file_timeout
    /\ file_address' = s.file_address
    /\ io' = s.io
    /\ adapter' = s.adapter

Called(op, arg, size, s) ==
    /\ Becomes(s)
    /\ last' = [op |-> op, arg |-> arg, size |-> size, err |-> s.err]

Init ==
    \E model \in Models, a \in InitAddresses :
    \E ver \in (IF model = "gi" THEN Versions ELSE {0}) :
        LET s == __init__(PyInt(a), model, ver)
        IN  /\ _model = s.model
            /\ _version = s.version
            /\ _gpib_address = s.gpib_address
            /\ _timeout = s.timeout
            /\ _terminator = s.terminator
            /\ _eoi = s.eoi
            /\ _eos = s.eos
            /\ _sleeptime = s.sleeptime
            /\ _network_terminator = s.network_terminator
            /\ file_terminator = s.file_terminator
            /\ file_timeout = s.file_timeout
            /\ file_address = s.file_address
            /\ io = s.io
            /\ adapter = s.adapter
            /\ last = [op |-> "__init__", arg |-> PyInt(a), size |-> -1, err |-> s.err]

SetAddress == \E v \in AddressInputs : Called("address", v, -1, address_set(Self(0), v))

SetSleeptime == \E v \in SleeptimeInputs : Called("sleeptime", v, -1, sleeptime_set(Self(0), v))

SetTimeout ==
    \E v \in TimeoutInputs, f \in Fails : Called("timeout", v, -1, timeout_set(Self(f), v))

SetEoi == \E v \in EoiInputs, f \in Fails : Called("eoi", v, -1, eoi_set(Self(f), v))

SetEos == \E v \in EosInputs, f \in Fails : Called("eos", v, -1, eos_set(Self(f), v))

SetTerminator ==
    \E v \in TerminatorInputs, f \in Fails :
        Called("terminator", v, -1, terminator_set(Self(f), v))

Sendcmd ==
    \E m \in Texts, f \in Fails : Called("sendcmd", PyStr(m), -1, _sendcmd(Self(f), "", m))

Query ==
    \E m \in Texts, n \in Sizes, f \in ReadFaults :
        Called("query", PyStr(m), n, _query(Self(f[1]), "", m, n, f[2]))

Read ==
    \E n \in Sizes, f \in ReadFaults :
        Called("read", PyNone, n, read(Self(f[1]), n, f[2]))

ReadRaw ==
    \E n \in Sizes, f \in ReadFaults :
        Called("read_raw", PyNone, n, read_raw(Self(f[1]), n, f[2]))

Write ==
    \E m \in Texts \ {<<>>}, f \in Fails : Called("write", PyStr(m), -1, write(Self(f), m))

Next ==
    \/ SetAddress
    \/ SetSleeptime
    \/ SetTimeout
    \/ SetEoi
    \/ SetEos
    \/ SetTerminator
    \/ Sendcmd
    \/ Query
    \/ Read
    \/ ReadRaw
    \/ Write

Spec == Init /\ [][Next]_vars

(***************************************************************************)
(* Observations on the latest call.                                        *)
(***************************************************************************)
Setters == {"address", "timeout", "eoi", "eos", "terminator", "sleeptime"}
Rejections == {"ValueError", "TypeError"}

IsLegacy == _model = "gi" /\ _version <= LegacyVersion

\* what the terminator accessor returns in the current state
Terminator == terminator(Self(0))

\* the positions of io at which the text c (followed by anything) was written
Writes(c) == {i \in DOMAIN io : io[i].k = "write" /\ io[i].cmd = c}
\* the positions of io at which one of the texts of C was written
WritesOf(C) == {i \in DOMAIN io : io[i].k = "write" /\ io[i].cmd \in C}
Calls(c) == {i \in DOMAIN io : io[i].k = "call" /\ io[i].cmd = c}
ChannelReads == {i \in DOMAIN io : io[i].k = "read"}

\* the session's fields
Fields ==
    <<_gpib_address, file_address, _timeout, file_timeout, _eoi, _eos,
      _terminator, _sleeptime, file_terminator>>

\* the commands of the adapter variant table, per session
AddrCmd == IF IsLegacy THEN "+a:" ELSE "++addr "
EoiCmd == IF IsLegacy THEN "+eoi:" ELSE "++eoi "
TimeoutCmd == IF IsLegacy THEN "+t:" ELSE "++read_tmo_ms "
EosCmd == IF IsLegacy THEN "+eos:" ELSE "++eos "
ReadTriggers == {"++read", "++read eoi", "++read "}

\* the values the commands carry for the cached fields
EoiArg == IF _eoi THEN <<49>> ELSE <<48>>
TimeoutArg == IF IsLegacy THEN Digits(_timeout \div 1000) ELSE Digits(_timeout)
EosArg ==
    IF IsLegacy THEN Format(_eos)
    ELSE CASE _eos = PyStr(CRLF) -> <<48>>
           [] _eos = PyStr(CR) -> <<49>>
           [] _eos = PyStr(LF) -> <<50>>
           [] OTHER -> <<51>>

\* the character that corresponds to the cached eos
EosCharacter == IF IsInt(_eos) THEN PyStr(<<IntVal(_eos)>>) ELSE _eos

(***************************************************************************)
(* C1: in every state reached by successful calls, the terminator accessor *)
(* returns "eoi" when the cached eoi flag is true and otherwise the        *)
(* character that corresponds to the cached eos.                           *)
(***************************************************************************)
C1_TerminatorDerived ==
    last.err = OK => Terminator = (IF _eoi THEN PyStr(EOI) ELSE EosCharacter)

(***************************************************************************)
(* C2: the cached gpib_address satisfies 1 <= gpib_address <= 30 in every  *)
(* reachable state, the state right after construction included.           *)
(***************************************************************************)
C2_AddressInRange ==
    IntVal(_gpib_address) >= MinAddress /\ IntVal(_gpib_address) <= MaxAddress

(***************************************************************************)
(* C3: a setter call rejected with a range or type error leaves every      *)
(* field of the session unchanged and writes nothing to the channel.       *)
(***************************************************************************)
C3_RejectedSetterChangesNothing ==
    [][(last'.op \in Setters /\ last'.err \in Rejections)
          => (Fields' = Fields /\ io' = <<>>)]_vars

\* a terminator out of range was rejected on a legacy gi session
C3_Witness ==
    /\ IsLegacy
    /\ last.op = "terminator" /\ last.arg = PyInt(256) /\ last.err = "ValueError"
    /\ ~_eoi

(***************************************************************************)
(* C4, as claimed: each successful call of set_address, set_timeout,       *)
(* set_eoi, set_eos and set_terminator writes the corresponding adapter    *)
(* command to the channel before it returns.                               *)
(***************************************************************************)
C4_EverySetterWrites ==
    (last.op \in {"address", "timeout", "eoi", "eos", "terminator"} /\ last.err = OK)
        => WritesOf({AddrCmd, "+a:", TimeoutCmd, EoiCmd, EosCmd}) # {}

(***************************************************************************)
(* C4, amended: each successful set_timeout, set_eoi, set_eos and          *)
(* set_terminator writes, during the call, the command of the session's    *)
(* variant that carries the new cached value (set_terminator: the EOI      *)
(* command, and the EOS command too unless it is "eoi" on legacy gi); a    *)
(* successful set_address writes nothing: the address goes out with the    *)
(* next send_command.                                                      *)
(***************************************************************************)
C4_SettersWriteExceptAddress ==
    last.err = OK =>
        /\ last.op = "timeout" =>
              \E i \in Writes(TimeoutCmd) : io[i].arg = TimeoutArg
        /\ last.op = "eoi" => \E i \in Writes(EoiCmd) : io[i].arg = EoiArg
        /\ last.op = "eos" => \E i \in Writes(EosCmd) : io[i].arg = EosArg
        /\ last.op = "terminator" =>
              /\ \E i \in Writes(EoiCmd) : io[i].arg = EoiArg
              /\ (IsLegacy /\ _eoi) \/ \E i \in Writes(EosCmd) : io[i].arg = EosArg
        /\ last.op = "address" => io = <<>>

\* a pair was accepted by set_address: both addresses changed, nothing written
C4_Witness ==
    /\ last.op = "address" /\ last.err = OK /\ last.arg.t = "list"
    /\ _gpib_address = PyInt(30) /\ file_address = Downstream
    /\ io = <<>>

(***************************************************************************)
(* C5: send_command with empty text writes nothing; with non-empty text it *)
(* writes the addressing, EOI, timeout and EOS commands, each carrying the *)
(* cached value, all before the text, and the text is the last write.      *)
(***************************************************************************)
C5_SendcmdReasserts ==
    last.op = "sendcmd" =>
        /\ last.arg.v = <<>> => io = <<>>
        /\ (last.arg.v # <<>> /\ last.err = OK) => Len(io) = 5
        /\ \A i \in DOMAIN io :
              (io[i].k = "write" /\ io[i].cmd = "") =>
                  /\ i = 5 /\ Len(io) = 5
                  /\ io[5].arg = last.arg.v
                  /\ io[1].k = "write" /\ io[1].cmd \in {"+a:", "++addr "}
                  /\ io[1].arg = Format(_gpib_address)
                  /\ io[2].k = "write" /\ io[2].cmd = EoiCmd /\ io[2].arg = EoiArg
                  /\ io[3].k = "write" /\ io[3].cmd = TimeoutCmd /\ io[3].arg = TimeoutArg
                  /\ io[4].k = "write" /\ io[4].cmd = EosCmd /\ io[4].arg = EosArg

\* a command was sent on a pl session whose eos is CRLF
C5_Witness ==
    /\ last.op = "sendcmd" /\ last.err = OK /\ last.arg.v # <<>>
    /\ _model = "pl" /\ _eos = PyStr(CRLF)
    /\ Len(io) = 5 /\ io[5].arg = last.arg.v

(***************************************************************************)
(* C6: a query with non-empty text performs send_command(text), exactly    *)
(* one begin_read, exactly one read on the channel and exactly one         *)
(* end_read, in this order; on pl exactly one read trigger is written      *)
(* between the text and the channel read.                                  *)
(***************************************************************************)
C6_QueryReadsOnce ==
    (last.op = "query" /\ last.arg.v # <<>> /\ last.err = OK) =>
        /\ Cardinality(Writes("")) = 1
        /\ Cardinality(Calls("_initread")) = 1
        /\ Cardinality(ChannelReads) = 1
        /\ Cardinality(Calls("_endread")) = 1
        /\ \A t \in Writes(""), b \in Calls("_initread"), r \in ChannelReads,
              e \in Calls("_endread") : t < b /\ b < r /\ r < e
        /\ _model = "pl" => Cardinality(WritesOf(ReadTriggers)) = 1

(***************************************************************************)
(* C7: on a legacy gi session a query completes with a response, and it    *)
(* writes "+read" between the text and the channel read exactly when the   *)
(* text contains no '?'.                                                   *)
(***************************************************************************)
HasQueryMarker(m) == \E i \in DOMAIN m : m[i] = 63

C7_LegacyQueryReadTrigger ==
    (IsLegacy /\ last.op = "query" /\ last.arg.v # <<>> /\ last.err # "IOError") =>
        /\ last.err = OK
        /\ Writes("+read") # {} <=> ~HasQueryMarker(last.arg.v)
        /\ \A i \in Writes("+read") :
              /\ \E t \in Writes("") : t < i
              /\ \E r \in ChannelReads : i < r

(***************************************************************************)
(* C8: on a pl session, when read, read_raw or query returns normally the  *)
(* channel's terminator equals the network terminator recorded at the      *)
(* start of the session.                                                   *)
(***************************************************************************)
C8_ReadRestoresTerminator ==
    (_model = "pl" /\ last.op \in {"read", "read_raw", "query"} /\ last.err = OK)
        => file_terminator = _network_terminator

(***************************************************************************)
(* C9: on a modern adapter, a successful set_terminator("\n") leaves       *)
(* eos = "\n", eoi = false and the accessor returning "\n"; a successful   *)
(* set_terminator("eoi") leaves eoi = true and the accessor returning      *)
(* "eoi", whatever eos was before.                                         *)
(***************************************************************************)
C9_TerminatorRoundTrip ==
    (~IsLegacy /\ last.op = "terminator" /\ last.err = OK) =>
        /\ last.arg = PyStr(LF) =>
              _eos = PyStr(LF) /\ ~_eoi /\ Terminator = PyStr(LF)
        /\ last.arg = PyStr(EOI) => _eoi /\ Terminator = PyStr(EOI)

\* "\n" was set on a pl session
C9_Witness ==
    /\ _model = "pl" /\ last.op = "terminator" /\ last.err = OK
    /\ last.arg = PyStr(LF) /\ Terminator = PyStr(LF)

(***************************************************************************)
(* C10, as claimed: the addressing command of send_command is "+a:<addr>"  *)
(* on legacy gi (version <= 4) and "++addr <addr>" on modern gi and on pl. *)
(***************************************************************************)
C10_AddrCommandByVersion ==
    (last.op = "sendcmd" /\ io # <<>>) =>
        /\ io[1].k = "write" /\ io[1].arg = Format(_gpib_address)
        /\ io[1].cmd = (IF IsLegacy THEN "+a:" ELSE "++addr ")

(***************************************************************************)
(* C10, amended: the addressing command of send_command is "+a:<addr>" on  *)
(* every gi session, whatever its firmware version, and "++addr <addr>"    *)
(* on a pl session, with <addr> the cached gpib_address.                   *)
(***************************************************************************)
C10_AddrCommandByModel ==
    (last.op = "sendcmd" /\ io # <<>>) =>
        /\ io[1].k = "write" /\ io[1].arg = Format(_gpib_address)
        /\ io[1].cmd = (IF _model = "gi" THEN "+a:" ELSE "++addr ")

\* a command was sent on a modern gi session to address 30
C10_Witness ==
    /\ _model = "gi" /\ _version > LegacyVersion
    /\ last.op = "sendcmd" /\ last.err = OK
    /\ io # <<>> /\ io[1].cmd = "+a:" /\ io[1].arg = <<51, 48>>

(***************************************************************************)
(* C11: on a legacy gi session set_eos with an integer outside 0..255      *)
(* fails with a range error, writes no "+eos:" command and leaves the      *)
(* cached eos as it was.                                                   *)
(***************************************************************************)
C11_LegacyEosRange ==
    (/\ IsLegacy /\ last.op = "eos" /\ last.err # "IOError"
     /\ IsInt(last.arg) /\ (IntVal(last.arg) < 0 \/ IntVal(last.arg) > MaxByte))
        => (last.err = "ValueError" /\ Writes("+eos:") = {} /\ _eos # last.arg)

(***************************************************************************)
(* C12: between calls, from the end of construction on, the cached eoi,    *)
(* eos and timeout each equal the value carried by the latest EOI, EOS and *)
(* timeout command written to the adapter (and one has been written),      *)
(* provided no channel write has failed.                                   *)
(***************************************************************************)
C12_CacheMatchesAdapter ==
    adapter.intact =>
        /\ adapter.eoi = EoiArg
        /\ adapter.eos = EosArg
        /\ adapter.timeout = TimeoutArg

(***************************************************************************)
(* C13, as claimed: when the channel write of the command fails during     *)
(* set_eoi, set_eos or set_timeout, on any variant, the cached field holds *)
(* the attempted new value.                                                *)
(***************************************************************************)
\* the value a call of an eos or timeout setter tries to cache
AttemptedEos ==
    IF IsLegacy
    THEN (IF OrdOk(last.arg) THEN PyInt(Ord(last.arg)) ELSE last.arg)
    ELSE (IF IsInt(last.arg) THEN PyStr(<<IntVal(last.arg)>>) ELSE last.arg)
AttemptedTimeout ==
    IF last.arg.t = "quantity" THEN last.arg.v ELSE 1000 * IntVal(last.arg)

C13_FailedWriteKeepsAttempt ==
    last.err = "IOError" =>
        /\ last.op = "eoi" => _eoi = last.arg.v
        /\ last.op = "eos" => _eos = AttemptedEos
        /\ last.op = "timeout" => _timeout = AttemptedTimeout

(***************************************************************************)
(* C13, amended: when the channel write of the command fails, the error    *)
(* reaches the caller; after set_eoi (any variant) and after set_eos on    *)
(* modern gi and pl the cached field holds the attempted new value; after  *)
(* set_timeout (any variant) and after set_eos on legacy gi the cached     *)
(* field, and the channel's timeout, keep the value they had before.       *)
(***************************************************************************)
C13_FailedWriteByField ==
    [][last'.err = "IOError" =>
          /\ last'.op = "eoi" => _eoi' = last'.arg.v
          /\ (last'.op = "eos" /\ ~IsLegacy) => _eos' = AttemptedEos'
          /\ (last'.op = "eos" /\ IsLegacy) => _eos' = _eos
          /\ last'.op = "timeout" =>
                (_timeout' = _timeout /\ file_timeout' = file_timeout)]_vars

\* a failed set_timeout(2.5 s) left the cached second in place
C13_Witness ==
    /\ last.op = "timeout" /\ last.err = "IOError" /\ last.arg = Quantity(2500)
    /\ _timeout = DefaultTimeout /\ io = <<>>

(***************************************************************************)
(* C14: a successful set_eos writes exactly one EOS command and caches the *)
(* value: on modern gi and pl "++eos <code>" with CRLF -> 0, CR -> 1,      *)
(* LF -> 2, no terminator -> 3; on legacy gi a single character c gives    *)
(* "+eos:<ord(c)>" and the cached eos is the integer ord(c).               *)
(***************************************************************************)
C14_EosMapping ==
    (last.op = "eos" /\ last.err = OK) =>
        /\ Len(io) = 1 /\ io[1].k = "write"
        /\ ~IsLegacy =>
              /\ io[1].cmd = "++eos "
              /\ last.arg = PyStr(CRLF) => (io[1].arg = <<48>> /\ _eos = PyStr(CRLF))
              /\ last.arg = PyStr(CR) => (io[1].arg = <<49>> /\ _eos = PyStr(CR))
              /\ last.arg = PyStr(LF) => (io[1].arg = <<50>> /\ _eos = PyStr(LF))
              /\ last.arg = PyNone => (io[1].arg = <<51>> /\ _eos = PyNone)
        /\ IsLegacy =>
              /\ io[1].cmd = "+eos:"
              /\ OrdOk(last.arg) =>
                    (io[1].arg = Digits(last.arg.v[1]) /\ _eos = PyInt(last.arg.v[1]))

\* ";" was set on a legacy gi session: "+eos:59"
C14_Witness ==
    /\ IsLegacy /\ last.op = "eos" /\ last.err = OK /\ last.arg = PyStr(<<59>>)
    /\ io[1].arg = <<53, 57>> /\ _eos = PyInt(59)

(***************************************************************************)
(* C15: set_timeout(v), v a whole number of milliseconds, writes exactly   *)
(* one timeout command, "+t:<v in whole seconds, truncated>" on legacy gi  *)
(* and "++read_tmo_ms <v>" on modern gi and pl, and leaves the channel's   *)
(* timeout and the cached timeout both equal to v.                         *)
(***************************************************************************)
C15_TimeoutCommand ==
    (last.op = "timeout" /\ last.err = OK) =>
        LET v == IF last.arg.t = "quantity" THEN last.arg.v ELSE 1000 * last.arg.v
        IN  /\ Len(io) = 1 /\ io[1].k = "write"
            /\ IsLegacy => (io[1].cmd = "+t:" /\ io[1].arg = Digits(v \div 1000))
            /\ ~IsLegacy => (io[1].cmd = "++read_tmo_ms " /\ io[1].arg = Digits(v))
            /\ file_timeout = v
            /\ _timeout = v

\* 2500 ms on a legacy gi session: "+t:2"
C15_Witness ==
    /\ IsLegacy /\ last.op = "timeout" /\ last.err = OK /\ last.arg = Quantity(2500)
    /\ io[1].arg = <<50>> /\ file_timeout = 2500

(***************************************************************************)
(* C16: on a pl session begin_read(size) primes the read by branch.  For   *)
(* size = -1 with terminator "eoi": "++eot_char <code of the channel       *)
(* terminator>", then "++eot_enable 1", then "++read eoi", the channel     *)
(* terminator unchanged.  For size = -1 with a character c: the channel    *)
(* terminator becomes c, then "++eot_enable 0", then "++read <ord(c)>".    *)
(* For size >= 0: a plain "++read", the channel terminator unchanged.      *)
(* Observed on read and read_raw, which call begin_read once; the read on  *)
(* the channel ends the priming.                                           *)
(***************************************************************************)
C16_BeginReadByBranch ==
    (_model = "pl" /\ last.op \in {"read", "read_raw"} /\ last.err = OK) =>
        \E r \in ChannelReads :
            LET before == io[1].term
                primed == {i \in 2 .. r - 1 : io[i].k = "write"}
                Cmd(c) == {i \in primed : io[i].cmd = c}
                eot == Cmd("++eot_char ") \cup Cmd("++eot_enable 0") \cup Cmd("++eot_enable 1")
                trig == Cmd("++read") \cup Cmd("++read eoi") \cup Cmd("++read ")
            IN  /\ Calls("_initread") = {1}
                /\ (last.size = -1 /\ Terminator = PyStr(EOI)) =>
                      /\ \E i \in Cmd("++eot_char "), j \in Cmd("++eot_enable 1"),
                            k \in Cmd("++read eoi") :
                            /\ i < j /\ j < k
                            /\ io[i].arg = Digits(before.v[1])
                            /\ eot = {i, j} /\ trig = {k}
                      /\ \A i \in 1 .. r : io[i].term = before
                /\ (last.size = -1 /\ Terminator # PyStr(EOI)) =>
                      /\ \E j \in Cmd("++eot_enable 0"), k \in Cmd("++read ") :
                            /\ j < k
                            /\ io[k].arg = Digits(Terminator.v[1])
                            /\ eot = {j} /\ trig = {k}
                      /\ \A i \in 2 .. r : io[i].term = Terminator
                /\ last.size >= 0 =>
                      /\ \E k \in Cmd("++read") : io[k].arg = <<>> /\ trig = {k}
                      /\ eot = {}
                      /\ \A i \in 1 .. r : io[i].term = before

\* an unbounded read on a pl session whose terminator is the character LF
C16_Witness ==
    /\ _model = "pl" /\ last.op = "read" /\ last.size = -1 /\ last.err = OK
    /\ Terminator = PyStr(LF)
    /\ \E k \in Writes("++read ") : io[k].arg = <<49, 48>> /\ io[k].term = PyStr(LF)

(***************************************************************************)
(* C17: constructing a pl session writes "++mode 1" and then "++auto 0" as *)
(* the first two commands on the channel; constructing a gi session never  *)
(* writes either and issues the "+ver" query before any other command.     *)
(***************************************************************************)
C17_ConstructionOrder ==
    last.op = "__init__" =>
        /\ _model = "pl" =>
              /\ Len(io) >= 2
              /\ io[1].k = "write" /\ io[1].cmd = "++mode 1"
              /\ io[2].k = "write" /\ io[2].cmd = "++auto 0"
        /\ _model = "gi" =>
              /\ WritesOf({"++mode 1", "++auto 0"}) = {}
              /\ Len(io) >= 2
              /\ io[1].k = "write" /\ io[1].cmd = "+ver"
              /\ io[2].k = "read"

\* a pl session right after construction
C17_Witness ==
    /\ last.op = "__init__" /\ _model = "pl"
    /\ Writes("++mode 1") = {1} /\ Writes("++eos ") # {}

(***************************************************************************)
(* C18: on a pl session, in every state between calls, also after a read   *)
(* or query that ended in an error, the channel's terminator equals the    *)
(* network terminator recorded at construction.                            *)
(***************************************************************************)
C18_ChannelTerminatorAtRest ==
    _model = "pl" => file_terminator = _network_terminator

(***************************************************************************)
(* C19: on a pl session an unbounded read (size = -1) writes "++read eoi"  *)
(* exactly when the cached eoi flag is true, and otherwise writes          *)
(* "++read <code>" with <code> the character code of the cached eos.       *)
(***************************************************************************)
C19_ReadTriggerFollowsCache ==
    (_model = "pl" /\ last.op \in {"read", "read_raw"} /\ last.size = -1 /\ last.err = OK) =>
        IF _eoi
        THEN Writes("++read eoi") # {} /\ Writes("++read ") = {}
        ELSE /\ Writes("++read eoi") = {}
             /\ OrdOk(_eos)
             /\ \E i \in Writes("++read ") : io[i].arg = Digits(Ord(_eos))

(***************************************************************************)
(* C20: every adapter command the session writes is written while the      *)
(* channel's terminator equals the network terminator recorded at          *)
(* construction; the two differ only during the data read itself.          *)
(***************************************************************************)
C20_CommandsUnderNetworkTerminator ==
    \A i \in DOMAIN io :
        (io[i].k = "write" /\ io[i].cmd # "") => io[i].term = _network_terminator

====
